---- MODULE Spec2Model ----
(***************************************************************************)
(* RTP/JPEG (RFC 2435) depacketizer of src/codec/jpeg.rs: quantizer table  *)
(* generator, JPEG header synthesizer, quantization table cache and the    *)
(* frame reassembly state machine (Depacketizer::push / pull).             *)
(*                                                                         *)
(* Byte strings (Vec<u8>, Bytes) are sequences of integers.  An element    *)
(* 0..255 is one byte; an element 256+n (n >= 1) stands for n consecutive  *)
(* bytes of value FILL, so that frames of megabytes stay representable.    *)
(* Option<T> is a sequence: <<>> is None and <<x>> is Some(x).             *)
(***************************************************************************)
EXTENDS Integers, Sequences, FiniteSets, TLC

VARIABLES metadata, data, qtables, pending, parameters,
          aborted, ret, out, op, pkt, npush, startPkt, npub, ntaken,
          plan, pubStart, ndiscard

\* metadata .. parameters are the fields of the Depacketizer; ret and out are
\* what the last push and pull returned; the others record the calls made:
\* the packet last pushed, the start fragment of the frame being assembled
\* and of the frame last published, and the numbers of pushes, publications,
\* frames pulled and frames discarded for their size.

vars == <<metadata, data, qtables, pending, parameters,
          aborted, ret, out, op, pkt, npush, startPkt, npub, ntaken, plan,
          pubStart, ndiscard>>

(* ------------------------------ bounds --------------------------------- *)

MaxPush == 3

MaxBulkPush == 35

BulkLen == 65000

MaxFragPayload == 3

(* ----------------------------- constants ------------------------------- *)

MAX_FRAME_LEN == 2000000

FILL == 170

ZIGZAG ==
  <<
     0, 1, 8, 16, 9, 2, 3, 10, 17, 24, 32, 25, 18, 11, 4, 5,
     12, 19, 26, 33, 40, 48, 41, 34, 27, 20, 13, 6, 7, 14, 21, 28,
     35, 42, 49, 56, 57, 50, 43, 36, 29, 22, 15, 23, 30, 37, 44, 51,
     58, 59, 52, 45, 38, 31, 39, 46, 53, 60, 61, 54, 47, 55, 62, 63
  >>

JPEG_LUMA_QUANTIZER ==
  <<
     16, 11, 10, 16, 24, 40, 51, 61, 12, 12, 14, 19, 26, 58, 60, 55,
     14, 13, 16, 24, 40, 57, 69, 56, 14, 17, 22, 29, 51, 87, 80, 62,
     18, 22, 37, 56, 68, 109, 103, 77, 24, 35, 55, 64, 81, 104, 113, 92,
     49, 64, 78, 87, 103, 121, 120, 101, 72, 92, 95, 98, 112, 100, 103, 99
  >>

JPEG_CHROMA_QUANTIZER ==
  <<
     17, 18, 24, 47, 99, 99, 99, 99, 18, 21, 26, 66, 99, 99, 99, 99,
     24, 26, 56, 99, 99, 99, 99, 99, 47, 66, 99, 99, 99, 99, 99, 99,
     99, 99, 99, 99, 99, 99, 99, 99, 99, 99, 99, 99, 99, 99, 99, 99,
     99, 99, 99, 99, 99, 99, 99, 99, 99, 99, 99, 99, 99, 99, 99, 99
  >>

LUM_DC_CODELENS ==
  <<
     0, 1, 5, 1, 1, 1, 1, 1, 1, 0, 0, 0, 0, 0, 0, 0
  >>

LUM_DC_SYMBOLS ==
  <<
     0, 1, 2, 3, 4, 5, 6, 7, 8, 9, 10, 11
  >>

LUM_AC_CODELENS ==
  <<
     0, 2, 1, 3, 3, 2, 4, 3, 5, 5, 4, 4, 0, 0, 1, 125
  >>

LUM_AC_SYMBOLS ==
  <<
     1, 2, 3, 0, 4, 17, 5, 18, 33, 49, 65, 6, 19, 81, 97, 7,
     34, 113, 20, 50, 129, 145, 161, 8, 35, 66, 177, 193, 21, 82, 209, 240,
     36, 51, 98, 114, 130, 9, 10, 22, 23, 24, 25, 26, 37, 38, 39, 40,
     41, 42, 52, 53, 54, 55, 56, 57, 58, 67, 68, 69, 70, 71, 72, 73,
     74, 83, 84, 85, 86, 87, 88, 89, 90, 99, 100, 101, 102, 103, 104, 105,
     106, 115, 116, 117, 118, 119, 120, 121, 122, 131, 132, 133, 134, 135, 136, 137,
     138, 146, 147, 148, 149, 150, 151, 152, 153, 154, 162, 163, 164, 165, 166, 167,
     168, 169, 170, 178, 179, 180, 181, 182, 183, 184, 185, 186, 194, 195, 196, 197,
     198, 199, 200, 201, 202, 210, 211, 212, 213, 214, 215, 216, 217, 218, 225, 226,
     227, 228, 229, 230, 231, 232, 233, 234, 241, 242, 243, 244, 245, 246, 247, 248,
     249, 250
  >>

CHM_DC_CODELENS ==
  <<
     0, 3, 1, 1, 1, 1, 1, 1, 1, 1, 1, 0, 0, 0, 0, 0
  >>

CHM_DC_SYMBOLS ==
  <<
     0, 1, 2, 3, 4, 5, 6, 7, 8, 9, 10, 11
  >>

CHM_AC_CODELENS ==
  <<
     0, 2, 1, 2, 4, 4, 3, 4, 7, 5, 4, 4, 0, 1, 2, 119
  >>

CHM_AC_SYMBOLS ==
  <<
     0, 1, 2, 3, 17, 4, 5, 33, 49, 6, 18, 65, 81, 7, 97, 113,
     19, 34, 50, 129, 8, 20, 66, 145, 161, 177, 193, 9, 35, 51, 82, 240,
     21, 98, 114, 209, 10, 22, 36, 52, 225, 37, 241, 23, 24, 25, 26, 38,
     39, 40, 41, 42, 53, 54, 55, 56, 57, 58, 67, 68, 69, 70, 71, 72,
     73, 74, 83, 84, 85, 86, 87, 88, 89, 90, 99, 100, 101, 102, 103, 104,
     105, 106, 115, 116, 117, 118, 119, 120, 121, 122, 130, 131, 132, 133, 134, 135,
     136, 137, 138, 146, 147, 148, 149, 150, 151, 152, 153, 154, 162, 163, 164, 165,
     166, 167, 168, 169, 170, 178, 179, 180, 181, 182, 183, 184, 185, 186, 194, 195,
     196, 197, 198, 199, 200, 201, 202, 210, 211, 212, 213, 214, 215, 216, 217, 218,
     226, 227, 228, 229, 230, 231, 232, 233, 234, 242, 243, 244, 245, 246, 247, 248,
     249, 250
  >>

(* --------------------------- byte strings ------------------------------ *)

ELen(e) == IF e >= 256 THEN e - 256 ELSE 1

RECURSIVE SumExtra(_, _)
SumExtra(r, i) == IF i > Len(r) THEN 0 ELSE (r[i] - 257) + SumExtra(r, i + 1)

\* Vec::len / Bytes::len / Buf::remaining
BLen(s) == Len(s) + SumExtra(SelectSeq(s, LAMBDA e : e >= 256), 1)

\* element index and offset inside it of the byte k bytes after element i
RECURSIVE LocateFrom(_, _, _)
LocateFrom(s, i, k) ==
  IF k = 0 \/ i > Len(s) THEN <<i, 0>>
  ELSE IF ELen(s[i]) <= k THEN LocateFrom(s, i + 1, k - ELen(s[i]))
  ELSE <<i, k>>

\* the place of byte k: directly when the first k elements are single bytes
Locate(s, k) ==
  IF k <= Len(s) /\ \A i \in 1..k : s[i] < 256
  THEN <<k + 1, 0>>
  ELSE LocateFrom(s, 1, k)

\* the bytes from place l on
DropAt(s, l) ==
  IF l[2] = 0 THEN SubSeq(s, l[1], Len(s))
  ELSE <<256 + (ELen(s[l[1]]) - l[2])>> \o SubSeq(s, l[1] + 1, Len(s))

\* Buf::advance(n), n <= remaining
BDrop(s, n) == DropAt(s, Locate(s, n))

\* the bytes before place l
TakeAt(s, l) ==
  IF l[2] = 0 THEN SubSeq(s, 1, l[1] - 1)
  ELSE SubSeq(s, 1, l[1] - 1) \o <<256 + l[2]>>

\* &b[..n], n <= len
BTake(s, n) == TakeAt(s, Locate(s, n))

\* the byte at place l
ByteAt(s, l) == IF s[l[1]] >= 256 THEN FILL ELSE s[l[1]]

\* b[k], zero based, k < len
BAt(s, k) == ByteAt(s, Locate(s, k))

\* Vec::extend_from_slice
BCat(s, t) ==
  IF s # <<>> /\ t # <<>> /\ s[Len(s)] >= 256 /\ t[1] >= 256
  THEN SubSeq(s, 1, Len(s) - 1) \o <<s[Len(s)] + (t[1] - 256)>> \o Tail(t)
  ELSE s \o t

\* the last two elements e1, e2 as bytes
Last2Of(e1, e2) ==
  IF e2 >= 256 + 2 THEN <<FILL, FILL>>
  ELSE <<(IF e1 >= 256 THEN FILL ELSE e1), (IF e2 >= 256 THEN FILL ELSE e2)>>

\* &data[data.len() - 2..], len >= 2
BLast2(s) ==
  IF Len(s) = 1 THEN <<FILL, FILL>> ELSE Last2Of(s[Len(s) - 1], s[Len(s)])

IsPrefix(h, s) ==
  /\ Len(h) <= Len(s)
  /\ SubSeq(s, 1, Len(h)) = h

(* ------------------- Appendix A: quantizer tables ---------------------- *)

clamp(x, lo, hi) == IF x < lo THEN lo ELSE IF x > hi THEN hi ELSE x

make_tables_scale(factor) ==
  IF factor < 50 THEN 5000 \div factor ELSE 200 - factor * 2

\* the quantizers scaled without the + 50 that rounds to nearest
ScaledTables_Truncating(s) ==
  [i \in 1..128 |->
     IF i <= 64
     THEN clamp((JPEG_LUMA_QUANTIZER[ZIGZAG[i] + 1] * s) \div 100, 1, 255)
     ELSE clamp((JPEG_CHROMA_QUANTIZER[ZIGZAG[i - 64] + 1] * s) \div 100, 1, 255)]

\* the 64 luma and 64 chroma quantizers for the scale s
ScaledTables(s) ==
  [i \in 1..128 |->
     IF i <= 64
     THEN clamp((JPEG_LUMA_QUANTIZER[ZIGZAG[i] + 1] * s + 50) \div 100, 1, 255)
     ELSE clamp((JPEG_CHROMA_QUANTIZER[ZIGZAG[i - 64] + 1] * s + 50) \div 100, 1, 255)]

\* the quality factor clamped to 1..100 instead of 1..99
make_tables_Clamp100(q) == ScaledTables(make_tables_scale(clamp(q, 1, 100)))

make_tables(q) == ScaledTables(make_tables_scale(clamp(q, 1, 99)))

(* ------------------- Appendix B: header synthesis ---------------------- *)

make_quant_header(p, qt, table_no) ==
  p \o <<255, 219, 0, (BLen(qt) + 3) % 256, table_no>> \o qt

make_huffman_header(p, codelens, symbols, table_no, table_class) ==
  p \o <<255, 196, 0, (3 + Len(codelens) + Len(symbols)) % 256,
         (table_class * 16 + table_no) % 256>> \o codelens \o symbols

make_dri_header(p, dri) ==
  p \o <<255, 221, 0, 4, dri \div 256, dri % 256>>

QuantSize(precision, bit) ==
  IF (precision \div bit) % 2 = 1 THEN 128 ELSE 64

\* the type compared with 0 without masking its low 6 bits
SofHeader_Unmasked(image_type, width, height) ==
  <<255, 192, 0, 17, 8,
    height \div 256, height % 256, width \div 256, width % 256, 3,
    0, (IF image_type = 0 THEN 33 ELSE 34), 0,
    1, 17, 1,
    2, 17, 1>>

SofHeader(image_type, width, height) ==
  <<255, 192, 0, 17, 8,
    height \div 256, height % 256, width \div 256, width % 256, 3,
    0, (IF image_type % 64 = 0 THEN 33 ELSE 34), 0,
    1, 17, 1,
    2, 17, 1>>

HuffmanHeaders ==
  make_huffman_header(
    make_huffman_header(
      make_huffman_header(
        make_huffman_header(<<>>, LUM_DC_CODELENS, LUM_DC_SYMBOLS, 0, 0),
        LUM_AC_CODELENS, LUM_AC_SYMBOLS, 0, 1),
      CHM_DC_CODELENS, CHM_DC_SYMBOLS, 1, 0),
    CHM_AC_CODELENS, CHM_AC_SYMBOLS, 1, 1)

SosHeader == <<255, 218, 0, 12, 3, 0, 0, 1, 17, 2, 17, 0, 63, 0>>

HeaderError(p) == [ok |-> FALSE, msg |-> "Qtable too small", p |-> p]

\* the DRI segment written whatever the restart interval
HeadersTail_DriAlways(p, image_type, width, height, dri) ==
  [ok |-> TRUE, msg |-> "",
   p |-> make_dri_header(p, dri)
           \o SofHeader(image_type, width, height)
           \o HuffmanHeaders \o SosHeader]

\* from the DRI segment to the end of the scan header
HeadersTail(p, image_type, width, height, dri) ==
  [ok |-> TRUE, msg |-> "",
   p |-> (IF dri # 0 THEN make_dri_header(p, dri) ELSE p)
           \o SofHeader(image_type, width, height)
           \o HuffmanHeaders \o SosHeader]

\* the second quantization table, from what is left of qtable
HeadersTable1(p, image_type, width, height, qtable, size, dri) ==
  IF BLen(qtable) < size
  THEN HeaderError(p)
  ELSE HeadersTail(make_quant_header(p, BTake(qtable, size), 1),
                   image_type, width, height, dri)

\* the first quantization table
HeadersTable0(p, image_type, width, height, qtable, size, precision, dri) ==
  IF BLen(qtable) < size
  THEN HeaderError(p)
  ELSE HeadersTable1(make_quant_header(p, BTake(qtable, size), 0),
                     image_type, width, height, BDrop(qtable, size),
                     QuantSize(precision, 2), dri)

\* Result<(), String> together with the bytes left in p
make_headers(p, image_type, width, height, qtable, precision, dri) ==
  HeadersTable0(p \o <<255, 216>>, image_type, width, height, qtable,
                QuantSize(precision, 1), precision, dri)

(* ----------------------------- Depacketizer ---------------------------- *)

None == <<>>

Some(x) == <<x>>

Ok == [kind |-> "Ok", msg |-> "", args |-> <<>>]

Err(m, a) == [kind |-> "Err", msg |-> m, args |-> a]

Panic == [kind |-> "panic", msg |-> "push with data already pending", args |-> <<>>]

VideoParameters(width, height) ==
  [pixel_dimensions |-> <<width, height>>, rfc6381_codec |-> "",
   pixel_aspect_ratio |-> None, frame_rate |-> None, extra_data |-> <<>>]

\* Depacketizer::new
new ==
  [metadata |-> None, data |-> <<>>, qtables |-> [i \in 0..254 |-> None],
   pending |-> None, parameters |-> None]

\* the fragment offset read from its low 16 bits only
frag_offset_Low16(payload) == BAt(payload, 2) * 256 + BAt(payload, 3)

\* the fixed 8-byte RTP/JPEG header
frag_offset(payload) ==
  BAt(payload, 1) * 65536 + BAt(payload, 2) * 256 + BAt(payload, 3)

type_specific(payload) == BAt(payload, 4)

q_of(payload) == BAt(payload, 5)

width_of(payload) == (BAt(payload, 6) * 8) % 65536

height_of(payload) == (BAt(payload, 7) * 8) % 65536

\* the check for an unretrieved frame left out
PendingGuard_Absent(st) == FALSE

PendingGuard(st) == st.pending # None

TooShort(payload) == BLen(payload) < 8

\* the orphan test with the metadata test inverted
IsOrphan_WithMetadata(st, payload) == frag_offset(payload) > 0 /\ st.metadata # None

\* the orphan test left out
IsOrphan_Never(st, payload) == FALSE

IsOrphan(st, payload) == frag_offset(payload) > 0 /\ st.metadata = None

\* the restart header looked for in the first fragment only
HasRestartHeader_FirstOnly(payload) ==
  type_specific(payload) > 63 /\ frag_offset(payload) = 0

HasRestartHeader(payload) == type_specific(payload) > 63

\* the restart marker header at the head of p: [ok, dri, payload after it]
RestartFrom(p) ==
  IF BLen(p) < 4
  THEN [ok |-> FALSE, dri |-> 0, payload |-> p]
  ELSE [ok |-> TRUE, dri |-> BAt(p, 0) * 256 + BAt(p, 1), payload |-> BDrop(p, 4)]

\* payload.advance(8) and the optional restart marker header
ParseRestart(payload) ==
  IF HasRestartHeader(payload)
  THEN RestartFrom(BDrop(payload, 8))
  ELSE [ok |-> TRUE, dri |-> 0, payload |-> BDrop(payload, 8)]

\* the generated table stored one slot too far
StoreGenerated_WrongSlot(cache, q, table) ==
  [qtable |-> Some(table), qtables |-> [cache EXCEPT ![q + 1] = Some(table)]]

\* self.qtables[q].replace(table), then the slot's content
StoreGenerated(cache, q, table) ==
  [qtable |-> Some(table), qtables |-> [cache EXCEPT ![q] = Some(table)]]

\* the Q < 128 branch: cached table, or make_tables(q) stored in slot q
CachedOrGenerated(cache, q) ==
  IF cache[q] # None
  THEN [qtable |-> cache[q], qtables |-> cache]
  ELSE StoreGenerated(cache, q, make_tables(q))

\* a resolution: [ret, qtable, precision, payload, qtables]
Resolved(r, qtable, precision, payload, cache) ==
  [ret |-> r, qtable |-> qtable, precision |-> precision,
   payload |-> payload, qtables |-> cache]

\* the Q = 255 test left out: Length 0 indexes the 255-slot cache at 255
ResolveDynamic_NoQ255Check(cache, q, precision, length, p) ==
  IF length > BLen(p)
  THEN Resolved(Err("Invalid RTP/JPEG packet. Length larger than payload",
                    <<length, BLen(p)>>), None, precision, p, cache)
  ELSE IF length = 0
  THEN
    IF q = 255
    THEN Resolved(Panic, None, precision, p, cache)
    ELSE Resolved(Ok, cache[q], precision, p, cache)
  ELSE Resolved(Ok, Some(p), precision, BDrop(p, length), cache)

\* an empty slot answered with a generated table instead of no table
ResolveDynamic_MissGenerates(cache, q, precision, length, p) ==
  IF length > BLen(p)
  THEN Resolved(Err("Invalid RTP/JPEG packet. Length larger than payload",
                    <<length, BLen(p)>>), None, precision, p, cache)
  ELSE IF length = 0
  THEN
    IF q = 255
    THEN Resolved(Err("Invalid RTP/JPEG packet. Quantization tables not found", <<>>),
                  None, precision, p, cache)
    ELSE Resolved(Ok, IF cache[q] = None THEN Some(make_tables(q)) ELSE cache[q],
                  precision, p, cache)
  ELSE Resolved(Ok, Some(p), precision, BDrop(p, length), cache)

\* the Q >= 128 branch after the quantization header; p is what follows it
ResolveDynamic(cache, q, precision, length, p) ==
  IF length > BLen(p)
  THEN Resolved(Err("Invalid RTP/JPEG packet. Length larger than payload",
                    <<length, BLen(p)>>), None, precision, p, cache)
  ELSE IF length = 0
  THEN
    IF q = 255
    THEN Resolved(Err("Invalid RTP/JPEG packet. Quantization tables not found", <<>>),
                  None, precision, p, cache)
    ELSE Resolved(Ok, cache[q], precision, p, cache)
  ELSE Resolved(Ok, Some(p), precision, BDrop(p, length), cache)

\* the Q < 128 branch
ResolveStandard(r, payload) == Resolved(Ok, r.qtable, 0, payload, r.qtables)

\* quantization table resolution of a start fragment
ResolveQtable(cache, q, payload) ==
  IF q >= 128
  THEN
    IF BLen(payload) < 4
    THEN Resolved(Err("Too short RTP/JPEG packet", <<>>), None, 0, payload, cache)
    ELSE ResolveDynamic(cache, q, BAt(payload, 1),
                        BAt(payload, 2) * 256 + BAt(payload, 3),
                        BDrop(payload, 4))
  ELSE ResolveStandard(CachedOrGenerated(cache, q), payload)

\* the outcome of the frag_offset == 0 block: [ret, st, payload, started]
Started(r, st, payload, started) ==
  [ret |-> r, st |-> st, payload |-> payload, started |-> started]

\* self.metadata.replace(JpegFrameMetadata { .. })
NewMetadata(pk, width, height) ==
  Some([start_ctx |-> pk.ctx, timestamp |-> pk.timestamp,
        parameters |-> Some(VideoParameters(width, height))])

\* self.data.clear() left out: the header lands behind the old buffer
StartWithHeaders_NoClear(st, pk, payload, h) ==
  IF ~h.ok
  THEN Started(Err(h.msg, <<>>), [st EXCEPT !.data = BCat(st.data, h.p)], payload, FALSE)
  ELSE Started(Ok,
               [st EXCEPT !.data = BCat(st.data, h.p),
                          !.metadata = NewMetadata(pk, width_of(pk.payload),
                                                   height_of(pk.payload))],
               payload, TRUE)

\* a failed make_headers leaves the buffer cleared, the metadata as it was
StartWithHeaders_DropPartial(st, pk, payload, h) ==
  IF ~h.ok
  THEN Started(Err(h.msg, <<>>), [st EXCEPT !.data = <<>>], payload, FALSE)
  ELSE Started(Ok,
               [st EXCEPT !.data = h.p,
                          !.metadata = NewMetadata(pk, width_of(pk.payload),
                                                   height_of(pk.payload))],
               payload, TRUE)

\* self.data.clear(); make_headers(&mut self.data, ..)?; metadata replaced
StartWithHeaders(st, pk, payload, h) ==
  IF ~h.ok
  THEN Started(Err(h.msg, <<>>), [st EXCEPT !.data = h.p], payload, FALSE)
  ELSE Started(Ok,
               [st EXCEPT !.data = h.p,
                          !.metadata = NewMetadata(pk, width_of(pk.payload),
                                                   height_of(pk.payload))],
               payload, TRUE)

\* match qtable { Some(qtable) => .., None => Err }
StartWithTable(st, pk, dri, r) ==
  IF r.ret.kind # "Ok"
  THEN Started(r.ret, st, r.payload, FALSE)
  ELSE IF r.qtable = None
  THEN Started(Err("Invalid RTP/JPEG packet. Missing quantization tables", <<>>),
               [st EXCEPT !.qtables = r.qtables], r.payload, FALSE)
  ELSE StartWithHeaders([st EXCEPT !.qtables = r.qtables], pk, r.payload,
                        make_headers(<<>>, type_specific(pk.payload),
                                     width_of(pk.payload), height_of(pk.payload),
                                     r.qtable[1], r.precision, dri))

\* the frag_offset == 0 block
StartFrame(st, pk, payload, dri) ==
  StartWithTable(st, pk, dri, ResolveQtable(st.qtables, q_of(pk.payload), payload))

\* the timestamp comparison left out
TimestampMismatch_Never(md, pk) == FALSE

TimestampMismatch(md, pk) == md.timestamp # pk.timestamp

\* "Adding EOI marker if necessary"
NeedsEoi(end) == end[1] # 255 /\ end[2] # 217

AppendEoi(d) == IF NeedsEoi(BLast2(d)) THEN BCat(d, <<255, 217>>) ELSE d

ExtendData(d, payload) == BCat(d, payload)

\* the limit taken as 2 MiB
Overflow_Binary(d) == BLen(d) > 2097152

\* the size limit left out
Overflow_Never(d) == FALSE

Overflow(d) == BLen(d) > MAX_FRAME_LEN

\* the frame reporting the terminal fragment's context as its start
PublishFrame_StartFromEnd(st, md, pk, d, has_new_parameters) ==
  [st EXCEPT
     !.pending = Some([start_ctx |-> pk.ctx, end_ctx |-> pk.ctx,
                       has_new_parameters |-> has_new_parameters,
                       loss |-> pk.loss, timestamp |-> pk.timestamp,
                       stream_id |-> pk.stream_id,
                       is_random_access_point |-> FALSE,
                       is_disposable |-> TRUE, data |-> d]),
     !.data = <<>>,
     !.metadata = None,
     !.parameters = IF has_new_parameters THEN md.parameters ELSE @]

\* the buffer copied into the frame instead of moved
PublishFrame_KeepsBuffer(st, md, pk, d, has_new_parameters) ==
  [st EXCEPT
     !.pending = Some([start_ctx |-> md.start_ctx, end_ctx |-> pk.ctx,
                       has_new_parameters |-> has_new_parameters,
                       loss |-> pk.loss, timestamp |-> pk.timestamp,
                       stream_id |-> pk.stream_id,
                       is_random_access_point |-> FALSE,
                       is_disposable |-> TRUE, data |-> d]),
     !.data = d,
     !.metadata = None,
     !.parameters = IF has_new_parameters THEN md.parameters ELSE @]

\* the frame handed to the output slot and the state left behind
PublishFrame(st, md, pk, d, has_new_parameters) ==
  [st EXCEPT
     !.pending = Some([start_ctx |-> md.start_ctx, end_ctx |-> pk.ctx,
                       has_new_parameters |-> has_new_parameters,
                       loss |-> pk.loss, timestamp |-> pk.timestamp,
                       stream_id |-> pk.stream_id,
                       is_random_access_point |-> FALSE,
                       is_disposable |-> TRUE, data |-> d]),
     !.data = <<>>,
     !.metadata = None,
     !.parameters = IF has_new_parameters THEN md.parameters ELSE @]

\* the comparison with the published parameters always false
Publish_NeverNew(st, md, pk, d) == PublishFrame(st, md, pk, d, FALSE)

\* the comparison with the published parameters always true
Publish_AlwaysNew(st, md, pk, d) == PublishFrame(st, md, pk, d, TRUE)

Publish(st, md, pk, d) ==
  PublishFrame(st, md, pk, d, st.parameters # md.parameters)

\* the outcome of the rest of push: [ret, st, published]
Accumulated(st, published) == [ret |-> Ok, st |-> st, published |-> published]

\* after self.data.extend_from_slice(&payload), d being the extended buffer
AfterExtend(st, pk, md, d) ==
  IF pk.mark
  THEN
    IF BLen(d) < 2
    THEN Accumulated([st EXCEPT !.data = d], FALSE)
    ELSE Accumulated(Publish(st, md, pk, AppendEoi(d)), TRUE)
  ELSE
    IF Overflow(d)
    THEN Accumulated([st EXCEPT !.metadata = None, !.data = <<>>], FALSE)
    ELSE Accumulated([st EXCEPT !.data = d], FALSE)

\* from "let metadata = match &self.metadata" to the end of push
Accumulate(st, pk, payload) ==
  IF st.metadata = None
  THEN [ret |-> Err("Invalid RTP/JPEG packet. Missing start packet", <<>>),
        st |-> st, published |-> FALSE]
  ELSE IF TimestampMismatch(st.metadata[1], pk)
  THEN Accumulated(st, FALSE)
  ELSE AfterExtend(st, pk, st.metadata[1], ExtendData(st.data, payload))

\* the outcome of push: [ret, st, started, published]
Pushed(r, st, started, published) ==
  [ret |-> r, st |-> st, started |-> started, published |-> published]

PushAccumulated(started, a) == Pushed(a.ret, a.st, started, a.published)

\* after the frag_offset == 0 block
PushStarted(pk, sf) ==
  IF sf.ret.kind # "Ok"
  THEN Pushed(sf.ret, sf.st, FALSE, FALSE)
  ELSE PushAccumulated(sf.started, Accumulate(sf.st, pk, sf.payload))

\* a truncated restart header abandons the frame being assembled
PushParsed_ResetOnShort(st, pk, rs) ==
  IF ~rs.ok
  THEN Pushed(Err("Too short RTP/JPEG packet", <<>>),
              [st EXCEPT !.metadata = None, !.data = <<>>], FALSE, FALSE)
  ELSE IF frag_offset(pk.payload) = 0
  THEN PushStarted(pk, StartFrame(st, pk, rs.payload, rs.dri))
  ELSE PushStarted(pk, Started(Ok, st, rs.payload, FALSE))

\* after the restart marker header
PushParsed(st, pk, rs) ==
  IF ~rs.ok
  THEN Pushed(Err("Too short RTP/JPEG packet", <<>>), st, FALSE, FALSE)
  ELSE IF frag_offset(pk.payload) = 0
  THEN PushStarted(pk, StartFrame(st, pk, rs.payload, rs.dri))
  ELSE PushStarted(pk, Started(Ok, st, rs.payload, FALSE))

\* Depacketizer::push
push(st, pk) ==
  IF PendingGuard(st)
  THEN Pushed(Panic, st, FALSE, FALSE)
  ELSE IF TooShort(pk.payload)
  THEN Pushed(Err("Too short RTP/JPEG packet", <<>>), st, FALSE, FALSE)
  ELSE IF IsOrphan(st, pk.payload)
  THEN Pushed(Err("Got JPEG fragment when we have no header", <<>>),
              [st EXCEPT !.metadata = None, !.data = <<>>], FALSE, FALSE)
  ELSE PushParsed(st, pk, ParseRestart(pk.payload))

\* the slot read without being emptied
pull_NoTake(st) == [out |-> st.pending, st |-> st]

\* Depacketizer::pull: [out, st]
pull(st) == [out |-> st.pending, st |-> [st EXCEPT !.pending = None]]

\* Depacketizer::parameters
parameters_of(st) == st.parameters

(* ------------------------------- packets ------------------------------- *)

\* the fixed header: type-specific, 24-bit fragment offset, type, Q, width, height
MainHeader(off, type, q, w, h) ==
  <<0, off \div 65536, (off \div 256) % 256, off % 256, type, q, w, h>>

\* restart interval, F and L bits and restart count
RestartHeader(dri) == <<dri \div 256, dri % 256, 255, 255>>

\* MBZ, precision, length
QuantHeader(precision, length) == <<0, precision, length \div 256, length % 256>>

\* an explicit 128-byte table, different from every generated one
InlineQt == [i \in 1..128 |-> 2 + (i % 5)]

\* a ReceivedPacket
Packet(payload, timestamp, mark, ctx) ==
  [payload |-> payload, timestamp |-> timestamp, mark |-> mark,
   loss |-> ctx % 2, stream_id |-> 0, ctx |-> ctx]

StartPackets ==
  { Packet(MainHeader(0, 0, 50, 2, 1) \o <<7>>, 0, FALSE, 1),
    Packet(MainHeader(0, 1, 50, 2, 1) \o <<255, 217>>, 0, TRUE, 2),
    Packet(MainHeader(0, 1, 10, 3, 2) \o <<7, 0>>, 1, FALSE, 3),
    Packet(MainHeader(0, 64, 50, 2, 1) \o RestartHeader(3) \o <<7>>, 0, FALSE, 4),
    Packet(MainHeader(0, 1, 128, 2, 1) \o QuantHeader(0, 128) \o InlineQt \o <<7>>,
           0, FALSE, 5),
    Packet(MainHeader(0, 1, 128, 2, 1) \o QuantHeader(0, 0) \o <<7>>, 0, FALSE, 6),
    Packet(MainHeader(0, 1, 255, 2, 1) \o QuantHeader(0, 128) \o InlineQt \o <<7>>,
           0, FALSE, 7),
    Packet(MainHeader(0, 65, 50, 2, 1) \o RestartHeader(0) \o <<7>>, 0, FALSE, 23),
    Packet(MainHeader(0, 0, 128, 2, 1) \o QuantHeader(3, 256) \o InlineQt \o InlineQt
             \o <<7>>, 0, FALSE, 24) }

ContinuationPackets ==
  { Packet(MainHeader(1, 0, 50, 2, 1) \o <<9>>, 0, FALSE, 8),
    Packet(MainHeader(2, 0, 50, 2, 1) \o <<255, 217>>, 0, TRUE, 9),
    Packet(MainHeader(2, 0, 50, 2, 1) \o <<255, 0>>, 0, TRUE, 10),
    Packet(MainHeader(2, 0, 50, 2, 1) \o <<0, 217>>, 0, TRUE, 11),
    Packet(MainHeader(2, 0, 50, 2, 1) \o <<9, 9>>, 0, TRUE, 12),
    Packet(MainHeader(65536, 0, 50, 2, 1) \o <<9>>, 1, TRUE, 13),
    Packet(MainHeader(2, 0, 50, 2, 1), 1, FALSE, 14) }

MalformedPackets ==
  { Packet(<<0, 0, 0, 0, 0, 50, 2>>, 0, FALSE, 15),
    Packet(MainHeader(3, 64, 50, 2, 1) \o <<0, 3>>, 0, TRUE, 16),
    Packet(MainHeader(0, 1, 128, 2, 1) \o <<0, 0, 0>>, 0, FALSE, 17),
    Packet(MainHeader(0, 1, 128, 2, 1) \o QuantHeader(0, 200) \o InlineQt, 0, FALSE, 18),
    Packet(MainHeader(0, 1, 255, 2, 1) \o QuantHeader(0, 0) \o <<7>>, 0, FALSE, 19),
    Packet(MainHeader(0, 1, 128, 2, 1) \o QuantHeader(0, 10) \o SubSeq(InlineQt, 1, 10),
           0, FALSE, 20),
    Packet(MainHeader(0, 1, 128, 2, 1) \o QuantHeader(0, 70) \o SubSeq(InlineQt, 1, 70),
           0, TRUE, 21),
    Packet(MainHeader(0, 1, 128, 2, 1) \o QuantHeader(0, 64) \o SubSeq(InlineQt, 1, 64)
             \o [i \in 1..64 |-> 9], 0, FALSE, 22) }

Packets == StartPackets \cup ContinuationPackets \cup MalformedPackets

(* ------------------------------- actions ------------------------------- *)

State ==
  [metadata |-> metadata, data |-> data, qtables |-> qtables,
   pending |-> pending, parameters |-> parameters]

Init ==
  /\ metadata = new.metadata
  /\ data = new.data
  /\ qtables = new.qtables
  /\ pending = new.pending
  /\ parameters = new.parameters
  /\ aborted = FALSE
  /\ ret = Ok
  /\ out = None
  /\ op = "new"
  /\ pkt = None
  /\ npush = 0
  /\ startPkt = None
  /\ npub = 0
  /\ ntaken = 0
  /\ plan = None
  /\ pubStart = None
  /\ ndiscard = 0

\* the state after a call of push that returned r
PushReturns(pk, r) ==
  /\ metadata' = r.st.metadata
  /\ data' = r.st.data
  /\ qtables' = r.st.qtables
  /\ pending' = r.st.pending
  /\ parameters' = r.st.parameters
  /\ aborted' = (r.ret.kind = "panic")
  /\ ret' = r.ret
  /\ startPkt' = IF r.started THEN Some(pk) ELSE startPkt
  /\ npub' = IF r.published THEN npub + 1 ELSE npub
  /\ pubStart' = IF ~r.published THEN pubStart
                 ELSE IF r.started THEN Some(pk) ELSE startPkt
  /\ ndiscard' = IF metadata # None /\ r.st.metadata = None /\ ~r.published
                 THEN ndiscard + 1 ELSE ndiscard
  /\ op' = "push"
  /\ pkt' = Some(pk)
  /\ npush' = npush + 1
  /\ UNCHANGED <<out, ntaken>>

\* one call of push; a panic ends the process
PushCall(pk) ==
  /\ ~aborted
  /\ PushReturns(pk, push(State, pk))

Push ==
  /\ npush < MaxPush
  /\ \E pk \in Packets : PushCall(pk)
  /\ UNCHANGED plan

\* the state after a call of pull that returned r.out
PullReturns(r) ==
  /\ out' = r.out
  /\ pending' = r.st.pending
  /\ metadata' = r.st.metadata
  /\ data' = r.st.data
  /\ qtables' = r.st.qtables
  /\ parameters' = r.st.parameters
  /\ ntaken' = IF r.out # None THEN ntaken + 1 ELSE ntaken
  /\ op' = "pull"
  /\ UNCHANGED <<aborted, ret, pkt, npush, startPkt, npub, plan, pubStart, ndiscard>>

Pull ==
  /\ ~aborted
  /\ PullReturns(pull(State))

Next == Push \/ Pull

Spec == Init /\ [][Next]_vars

(* ------------------------------- claims -------------------------------- *)

EOI == <<255, 217>>

\* the step is one call of push
PushStep == npush' = npush + 1

\* the step is one call of pull
PullStep == op' = "pull" /\ npush' = npush

\* a packet with a complete fixed header and, if indicated, restart header
WellFormed(pk) == ~TooShort(pk.payload) /\ ParseRestart(pk.payload).ok

IsStart(pk) == WellFormed(pk) /\ frag_offset(pk.payload) = 0

IsContinuation(pk) == WellFormed(pk) /\ frag_offset(pk.payload) > 0

\* the entropy payload of a continuation fragment
ContinuationPayload(pk) == ParseRestart(pk.payload).payload

\* the header a start fragment asks for, tables taken from the packet or generated
ExpectedHeader(pk) ==
  LET rs == ParseRestart(pk.payload)
      r == ResolveQtable(new.qtables, q_of(pk.payload), rs.payload)
  IN
  make_headers(<<>>, type_specific(pk.payload), width_of(pk.payload),
               height_of(pk.payload), r.qtable[1], r.precision, rs.dri)

\* C1 (as claimed): a frame completed by a continuation fragment is the
\* assembled buffer unchanged when its last two bytes are FF D9 and the
\* buffer followed by exactly one FF D9 otherwise; every published frame
\* ends with FF D9.
C1_EoiIdempotence ==
  [][(PushStep /\ pending = None /\ pending' # None) =>
       /\ BLast2(pending'[1].data) = EOI
       /\ IsContinuation(pkt'[1]) =>
            LET d == BCat(data, ContinuationPayload(pkt'[1])) IN
            pending'[1].data = IF BLast2(d) = EOI THEN d ELSE BCat(d, EOI)]_vars

\* C2 (as claimed): every published frame begins with the complete header
\* synthesized from the start fragment whose context the frame reports.
C2_FrameHasHeader ==
  pending # None =>
    /\ startPkt # None
    /\ startPkt[1].ctx = pending[1].start_ctx
    /\ ExpectedHeader(startPkt[1]).ok
    /\ IsPrefix(ExpectedHeader(startPkt[1]).p, pending[1].data)

\* C4 (as claimed): after a push that returned an error there is no pending
\* frame metadata (an error during accumulation destroys it; an error while
\* Idle leaves the reassembler Idle).
C4_ErrorLeavesIdle ==
  (op = "push" /\ ret.kind = "Err") => metadata = None

InlineLength(pk) ==
  LET p == ParseRestart(pk.payload).payload IN BAt(p, 2) * 256 + BAt(p, 3)

\* a start fragment with 128 <= Q < 255 and a complete quantization header
IsDynamicStart(pk) ==
  /\ IsStart(pk)
  /\ q_of(pk.payload) >= 128
  /\ q_of(pk.payload) < 255
  /\ BLen(ParseRestart(pk.payload).payload) >= 4

\* C5 (as claimed): an accepted start fragment with 128 <= Q < 255 and an
\* inline table leaves a table in cache slot Q, and a start fragment with
\* the same Q and Length 0 pushed after it is accepted.
C5_InlineTableCached ==
  (op = "push" /\ pkt # None /\ IsDynamicStart(pkt[1])) =>
    /\ (InlineLength(pkt[1]) > 0 /\ ret.kind = "Ok") =>
         qtables[q_of(pkt[1].payload)] # None
    /\ (/\ InlineLength(pkt[1]) = 0
        /\ startPkt # None
        /\ IsDynamicStart(startPkt[1])
        /\ InlineLength(startPkt[1]) > 0
        /\ q_of(startPkt[1].payload) = q_of(pkt[1].payload)) =>
         ret.kind = "Ok"

\* C6: a start fragment with Q < 128 leaves slot Q holding the stored table
\* if there was one and make_tables(Q) otherwise, is accepted, and its header
\* is built from the table in slot Q; no push or pull changes or empties a
\* filled slot.
C6_StandardTableCache ==
  [][/\ \A q \in 0..254 : qtables[q] # None => qtables'[q] = qtables[q]
     /\ (PushStep /\ pending = None /\ IsStart(pkt'[1])
                  /\ q_of(pkt'[1].payload) < 128) =>
          LET q == q_of(pkt'[1].payload)
              pk == pkt'[1]
              hdr == make_headers(<<>>, type_specific(pk.payload),
                                  width_of(pk.payload), height_of(pk.payload),
                                  qtables'[q][1], 0,
                                  ParseRestart(pk.payload).dri).p
          IN
          /\ qtables'[q] = IF qtables[q] # None THEN qtables[q]
                           ELSE Some(make_tables(q))
          /\ ret'.kind = "Ok"
          /\ IF pending' # None THEN IsPrefix(hdr, pending'[1].data)
             ELSE IsPrefix(hdr, data')]_vars

C6_Witness ==
  /\ op = "push"
  /\ ret.kind = "Ok"
  /\ IsStart(pkt[1])
  /\ q_of(pkt[1].payload) = 10
  /\ startPkt = pkt
  /\ qtables[10] = Some(make_tables(10))
  /\ qtables[50] = Some(make_tables(50))

\* C7: the output slot holds at most one frame; the frames published are
\* the frames pulled plus the one in the slot; pull returns the content of
\* the slot and empties it, and with an empty slot returns nothing and
\* changes nothing.
C7_SingleSlotOutput ==
  [][/\ Len(pending') <= 1
     /\ npub' = ntaken' + Len(pending')
     /\ PullStep =>
          /\ out' = pending
          /\ pending' = None
          /\ <<metadata', data', qtables', parameters'>> =
               <<metadata, data, qtables, parameters>>
          /\ pending = None => out' = None /\ State' = State]_vars

C7_Witness ==
  /\ op = "pull"
  /\ out # None
  /\ ntaken = 1
  /\ npub = 1
  /\ pending = None

\* C8: a push while the output slot is occupied panics whatever the packet,
\* returns neither success nor an error, and leaves the pending frame and
\* the rest of the state as they were; nothing runs after the panic.
C8_PushWithPendingPanics ==
  [][/\ (PushStep /\ pending # None) =>
          /\ ret'.kind = "panic"
          /\ aborted'
          /\ State' = State
     /\ aborted => FALSE]_vars

C8_Witness ==
  /\ aborted
  /\ ret.kind = "panic"
  /\ pending # None
  /\ TooShort(pkt[1].payload)

\* C9: a well-formed continuation fragment pushed while Accumulating whose
\* timestamp differs from the frame's returns Ok and changes neither buffer,
\* metadata, cache, published parameters nor output slot, marked or not.
C9_TimestampMismatchIgnored ==
  [][(/\ PushStep
      /\ pending = None
      /\ metadata # None
      /\ IsContinuation(pkt'[1])
      /\ metadata[1].timestamp # pkt'[1].timestamp) =>
       /\ ret' = Ok
       /\ State' = State]_vars

C9_Witness ==
  /\ op = "push"
  /\ ret = Ok
  /\ metadata # None
  /\ pending = None
  /\ IsContinuation(pkt[1])
  /\ pkt[1].mark
  /\ metadata[1].timestamp # pkt[1].timestamp
  /\ BLen(data) > 2

(* --------------------- never-terminated fragment streams --------------- *)

\* fragments carrying BulkLen bytes of entropy data each
BulkPackets ==
  { Packet(MainHeader(0, 0, 50, 2, 1) \o <<7>>, 0, FALSE, 31),
    Packet(MainHeader(1, 0, 50, 2, 1) \o <<256 + BulkLen>>, 0, FALSE, 32),
    Packet(MainHeader(1, 0, 50, 2, 1) \o <<256 + BulkLen>>, 1, FALSE, 33),
    Packet(MainHeader(0, 1, 128, 2, 1) \o QuantHeader(0, 10) \o SubSeq(InlineQt, 1, 10),
           0, FALSE, 34) }

PushBulk ==
  /\ npush < MaxBulkPush
  /\ \E pk \in BulkPackets : PushCall(pk)
  /\ UNCHANGED plan

\* the marked fragment of the stream, BulkLen bytes as well
BulkEndPacket ==
  Packet(MainHeader(2, 0, 50, 2, 1) \o <<256 + BulkLen>>, 0, TRUE, 36)

\* the stream is terminated late, around the size limit
PushBulkEnd ==
  /\ npush >= MaxBulkPush - 5
  /\ npush < MaxBulkPush
  /\ PushCall(BulkEndPacket)
  /\ UNCHANGED plan

NextBulk == PushBulk \/ PushBulkEnd \/ Pull

SpecBulk == Init /\ [][NextBulk]_vars

\* the entropy payload of a start fragment, after the quantization header
StartPayload(pk) ==
  ResolveQtable(new.qtables, q_of(pk.payload), ParseRestart(pk.payload).payload).payload

\* C10: an unmarked continuation whose payload takes the buffer over
\* MAX_FRAME_LEN returns Ok, publishes nothing and leaves no metadata and an
\* empty buffer; a continuation pushed while Idle is rejected as an orphan;
\* an accepted unmarked start fragment leaves exactly its own header and
\* payload in the buffer.
C10_OverflowGuard ==
  [][/\ (/\ PushStep /\ pending = None /\ metadata # None
         /\ IsContinuation(pkt'[1]) /\ ~pkt'[1].mark
         /\ metadata[1].timestamp = pkt'[1].timestamp
         /\ BLen(BCat(data, ContinuationPayload(pkt'[1]))) > MAX_FRAME_LEN) =>
          /\ ret' = Ok
          /\ pending' = None /\ npub' = npub
          /\ metadata' = None /\ data' = <<>>
     /\ (/\ PushStep /\ pending = None /\ metadata = None
         /\ ~TooShort(pkt'[1].payload) /\ frag_offset(pkt'[1].payload) > 0) =>
          /\ ret' = Err("Got JPEG fragment when we have no header", <<>>)
          /\ pending' = None /\ metadata' = None /\ data' = <<>>
     /\ (/\ PushStep /\ pending = None /\ IsStart(pkt'[1]) /\ ~pkt'[1].mark
         /\ ret' = Ok) =>
          /\ metadata' # None
          /\ metadata'[1].start_ctx = pkt'[1].ctx
          /\ data' = BCat(ExpectedHeader(pkt'[1]).p, StartPayload(pkt'[1]))]_vars

\* an unmarked continuation has just been accepted and the frame is gone
C10_Witness ==
  /\ op = "push"
  /\ ret = Ok
  /\ IsContinuation(pkt[1])
  /\ ~pkt[1].mark
  /\ startPkt # None
  /\ startPkt[1].timestamp = pkt[1].timestamp
  /\ metadata = None
  /\ data = <<>>
  /\ pending = None

(* ------------------------ fragmentation of one frame ------------------- *)

FragPayloads ==
  UNION { [1..n -> {0, 217, 255}] : n \in 2..MaxFragPayload }

\* header fields shared by all fragments of the frame
FragFields ==
  { [type |-> 1, q |-> 50, w |-> 2, h |-> 1, timestamp |-> 0],
    [type |-> 64, q |-> 50, w |-> 3, h |-> 2, timestamp |-> 1],
    [type |-> 0, q |-> 128, w |-> 2, h |-> 1, timestamp |-> 0] }

\* the fragment of the frame f carrying the bytes from..to of its payload,
\* marked when it carries the last one
Fragment(f, from, to) ==
  Packet(MainHeader(from - 1, f.type, f.q, f.w, f.h)
           \o (IF f.type > 63 THEN RestartHeader(5) ELSE <<>>)
           \o (IF from = 1 /\ f.q >= 128
               THEN QuantHeader(0, 128) \o InlineQt ELSE <<>>)
           \o SubSeq(f.payload, from, to),
         f.timestamp, to = Len(f.payload), from)

InitFrag ==
  /\ Init!1 /\ Init!2 /\ Init!3 /\ Init!4 /\ Init!5 /\ Init!6 /\ Init!7
  /\ Init!8 /\ Init!9 /\ Init!10 /\ Init!11 /\ Init!12 /\ Init!13 /\ Init!14
  /\ Init!16 /\ Init!17
  /\ \E p \in FragPayloads, f \in FragFields :
       plan = Some([payload |-> p, type |-> f.type, q |-> f.q, w |-> f.w,
                    h |-> f.h, timestamp |-> f.timestamp, sent |-> 0])

\* push the next fragment of the plan; the first one never carries it all
PushFragment ==
  /\ plan # None
  /\ plan[1].sent < Len(plan[1].payload)
  /\ \E to \in (plan[1].sent + 1)..Len(plan[1].payload) :
       /\ plan[1].sent = 0 => to < Len(plan[1].payload)
       /\ PushCall(Fragment(plan[1], plan[1].sent + 1, to))
       /\ plan' = Some([plan[1] EXCEPT !.sent = to])

NextFrag == PushFragment \/ Pull

SpecFrag == InitFrag /\ [][NextFrag]_vars

\* the frame published when the payload is delivered as a start fragment
\* with its first a bytes and one marked continuation with the rest
TwoFragmentFrame(f, a) ==
  LET s1 == push(new, Fragment(f, 1, a)).st
      s2 == push(s1, Fragment(f, a + 1, Len(f.payload))).st
  IN pull(s2).out

RequiredQuantLen(precision) == QuantSize(precision, 1) + QuantSize(precision, 2)

QuantPrecision(pk) == BAt(ParseRestart(pk.payload).payload, 1)

\* a start fragment with Q >= 128 carrying Length > 0 bytes of inline table
HasInlineTable(pk) ==
  /\ IsStart(pk)
  /\ q_of(pk.payload) >= 128
  /\ BLen(ParseRestart(pk.payload).payload) >= 4
  /\ InlineLength(pk) > 0
  /\ InlineLength(pk) <= BLen(ParseRestart(pk.payload).payload) - 4

\* C11 (as claimed): a start fragment with Q >= 128 whose inline table has
\* fewer bytes than its precision byte requires is rejected with
\* "Qtable too small", however many entropy bytes follow the table.
C11_InsufficientQuantData ==
  (/\ op = "push" /\ pkt # None /\ ret.kind # "panic"
   /\ HasInlineTable(pkt[1])
   /\ InlineLength(pkt[1]) < RequiredQuantLen(QuantPrecision(pkt[1]))) =>
    ret = Err("Qtable too small", <<>>)

\* a start fragment with Q >= 128 and a quantization header of Length 0
OmitsInlineTable(pk) ==
  /\ IsStart(pk)
  /\ q_of(pk.payload) >= 128
  /\ BLen(ParseRestart(pk.payload).payload) >= 4
  /\ InlineLength(pk) = 0

\* C12: with the output slot empty, a start fragment with Q = 255 and
\* Length 0 is rejected with "Quantization tables not found" whatever the
\* cache, buffer and metadata hold, and the push changes none of them.
C12_Q255NeedsInlineTable ==
  [][(/\ PushStep /\ pending = None
      /\ OmitsInlineTable(pkt'[1])
      /\ q_of(pkt'[1].payload) = 255) =>
       /\ ret' = Err("Invalid RTP/JPEG packet. Quantization tables not found", <<>>)
       /\ State' = State
       /\ npub' = npub]_vars

\* rejected while a frame was being accumulated and the cache was not empty
C12_Witness ==
  /\ op = "push"
  /\ OmitsInlineTable(pkt[1])
  /\ q_of(pkt[1].payload) = 255
  /\ ret.kind = "Err"
  /\ metadata # None
  /\ BLen(data) > 2
  /\ qtables[50] # None

\* the depacketizer state with the table in cache slot q
WithCached(st, q, table) == [st EXCEPT !.qtables[q] = Some(table)]

\* the header of a start fragment built from the given table
HeaderFrom(pk, table) ==
  make_headers(<<>>, type_specific(pk.payload), width_of(pk.payload),
               height_of(pk.payload), table, QuantPrecision(pk),
               ParseRestart(pk.payload).dri).p

\* C13: with the output slot empty, a start fragment with 128 <= Q < 255
\* and Length 0 whose cache slot is empty is rejected with "Missing
\* quantization tables" and starts no frame (state unchanged); the same push
\* on the same state with a table in slot Q is accepted, leaves the cache as
\* it was and starts the frame with the header built from that table.
C13_CachedDynamicTable ==
  [][(/\ PushStep /\ pending = None
      /\ OmitsInlineTable(pkt'[1])
      /\ q_of(pkt'[1].payload) < 255) =>
       LET pk == pkt'[1]
           q == q_of(pk.payload)
           hit == push(WithCached(State, q, InlineQt), pk)
       IN
       /\ qtables[q] = None =>
            /\ ret' = Err("Invalid RTP/JPEG packet. Missing quantization tables", <<>>)
            /\ State' = State
            /\ startPkt' = startPkt /\ npub' = npub
       /\ qtables[q] # None =>
            /\ ret' = Ok
            /\ qtables' = qtables
            /\ data' = BCat(HeaderFrom(pk, qtables[q][1]), StartPayload(pk))
       /\ hit.ret = Ok
       /\ hit.started
       /\ hit.st.qtables = WithCached(State, q, InlineQt).qtables
       /\ hit.st.metadata[1].start_ctx = pk.ctx
       /\ hit.st.data = BCat(HeaderFrom(pk, InlineQt), StartPayload(pk))]_vars

\* rejected for want of a cached table while a frame was being accumulated
C13_Witness ==
  /\ op = "push"
  /\ OmitsInlineTable(pkt[1])
  /\ q_of(pkt[1].payload) = 128
  /\ ret = Err("Invalid RTP/JPEG packet. Missing quantization tables", <<>>)
  /\ metadata # None
  /\ startPkt # None
  /\ metadata[1].start_ctx = startPkt[1].ctx
  /\ BLen(data) > 2

(* ------------------------------ fresh starts --------------------------- *)

\* a well-formed unmarked fragment with offset 0 and Q < 128
IsStandardStart(pk) ==
  IsStart(pk) /\ ~pk.mark /\ q_of(pk.payload) < 128

\* C14: from every state with an empty output slot (Idle, Accumulating,
\* after an error, after a frame was discarded for its size) a well-formed
\* unmarked start fragment with Q < 128 is accepted, publishes nothing, and
\* leaves the metadata of this fragment and a buffer holding exactly the
\* header synthesized from this fragment followed by its payload.
C14_FreshStart ==
  [][(PushStep /\ pending = None /\ IsStandardStart(pkt'[1])) =>
       LET pk == pkt'[1] IN
       /\ ret' = Ok
       /\ pending' = None /\ npub' = npub
       /\ metadata' # None
       /\ metadata'[1].start_ctx = pk.ctx
       /\ metadata'[1].timestamp = pk.timestamp
       /\ metadata'[1].parameters[1].pixel_dimensions =
            <<8 * BAt(pk.payload, 6), 8 * BAt(pk.payload, 7)>>
       /\ ExpectedHeader(pk).ok
       /\ data' = BCat(ExpectedHeader(pk).p, StartPayload(pk))]_vars

\* a start fragment accepted after an earlier frame was discarded for its size
C14_Witness ==
  /\ op = "push"
  /\ ret = Ok
  /\ IsStandardStart(pkt[1])
  /\ ndiscard = 1
  /\ metadata # None
  /\ metadata[1].start_ctx = pkt[1].ctx
  /\ BLen(data) < 1000

(* ---------------------------- orphan fragments ------------------------- *)

\* C15: with no frame metadata and an empty output slot, a fragment with
\* the complete 8-byte header and a fragment offset above 0 is rejected with
\* "Got JPEG fragment when we have no header"; the buffer is empty after it,
\* there is still no metadata, and nothing is published or otherwise changed.
C15_OrphanFragment ==
  [][(/\ PushStep /\ pending = None /\ metadata = None
      /\ ~TooShort(pkt'[1].payload)
      /\ frag_offset(pkt'[1].payload) > 0) =>
       /\ ret' = Err("Got JPEG fragment when we have no header", <<>>)
       /\ data' = <<>>
       /\ metadata' = None
       /\ pending' = None /\ npub' = npub
       /\ qtables' = qtables /\ parameters' = parameters
       /\ startPkt' = startPkt]_vars

\* a marked continuation rejected as an orphan after a frame was published
C15_Witness ==
  /\ op = "push"
  /\ ret = Err("Got JPEG fragment when we have no header", <<>>)
  /\ frag_offset(pkt[1].payload) > 0
  /\ pkt[1].mark
  /\ npub = 1
  /\ metadata = None
  /\ data = <<>>
  /\ pending = None

(* ------------------------- two-fragment reassembly --------------------- *)

\* the first push was an accepted unmarked start fragment
AfterFirstFragment ==
  /\ startPkt # None
  /\ ~startPkt[1].mark
  /\ npush = 1 \/ (npush = 2 /\ frag_offset(pkt[1].payload) > 0)

\* .. and the second push was a marked continuation with its timestamp
AfterSecondFragment ==
  /\ AfterFirstFragment
  /\ npush = 2
  /\ IsContinuation(pkt[1])
  /\ pkt[1].mark
  /\ pkt[1].timestamp = startPkt[1].timestamp

\* header, first payload, second payload
TwoFragmentBody ==
  BCat(BCat(ExpectedHeader(startPkt[1]).p, StartPayload(startPkt[1])),
       ContinuationPayload(pkt[1]))

\* the frame is the body, closed by FF D9
IsReassembled(frame) ==
  /\ IsPrefix(<<255, 216, 255, 219>>, frame.data)
  /\ IsPrefix(TwoFragmentBody, frame.data)
  /\ frame.data \in {TwoFragmentBody, BCat(TwoFragmentBody, EOI)}
  /\ BLast2(frame.data) = EOI

\* C16 (as claimed): after an unmarked start fragment pull returns nothing;
\* after a marked continuation with the same timestamp exactly one frame is
\* published and pulled, and its bytes are the synthesized header (FF D8 FF
\* DB ..), the first payload and the second payload, ending in FF D9.
C16_TwoFragmentReassembly ==
  /\ (AfterFirstFragment /\ npush = 1) => (pending = None /\ out = None)
  /\ AfterSecondFragment =>
       /\ npub = 1
       /\ pending # None => (ntaken = 0 /\ IsReassembled(pending[1]))
       /\ pending = None => ntaken = 1
       /\ out # None => IsReassembled(out[1])

(* --------------------------- video parameters -------------------------- *)

\* the pixel dimensions a start fragment declares: 8 x width and height byte
PixelDimensions(pk) == <<8 * BAt(pk.payload, 6), 8 * BAt(pk.payload, 7)>>

\* C17: parameters() is empty until a frame has been published; after a
\* publication it carries the pixel dimensions (8 x width byte, 8 x height
\* byte) of the start fragment of the frame published last; a push that
\* publishes nothing (failed or not) and a pull leave it as it was.
C17_ParameterQuery ==
  [][/\ npub = 0 => parameters_of(State) = None
     /\ npub' = 0 => parameters_of(State') = None
     /\ npub' > 0 =>
          /\ pubStart' # None
          /\ parameters_of(State') # None
          /\ parameters_of(State')[1].pixel_dimensions = PixelDimensions(pubStart'[1])
     /\ npub' = npub => parameters_of(State') = parameters_of(State)]_vars

\* the second published frame changed the dimensions
C17_Witness ==
  /\ npub = 2
  /\ pubStart # None
  /\ PixelDimensions(pubStart[1]) = <<24, 16>>
  /\ parameters_of(State) # None
  /\ parameters_of(State)[1].pixel_dimensions = <<24, 16>>

\* C18: the frame a push publishes has has_new_parameters true exactly when
\* no frame was published before it or the pixel dimensions of its start
\* fragment differ from those of the frame published before it.
C18_ParameterChangeFlag ==
  [][npub' = npub + 1 =>
       /\ pending' # None
       /\ pubStart' # None
       /\ pending'[1].has_new_parameters =
            (\/ pubStart = None
             \/ PixelDimensions(pubStart'[1]) # PixelDimensions(pubStart[1]))]_vars

\* a second frame with the dimensions of the first was published
C18_Witness ==
  /\ npub = 2
  /\ pending # None
  /\ ~pending[1].has_new_parameters
  /\ PixelDimensions(pubStart[1]) = <<16, 8>>

(* ------------------------------ header layout -------------------------- *)

RECURSIVE SegmentsFrom(_, _)
\* the marker segments of s from index i up to the SOS segment, each as
\* <<marker, first byte after the two length bytes>>; empty where s has no
\* marker at i
SegmentsFrom(s, i) ==
  IF i + 4 > Len(s) \/ s[i] # 255 \/ s[i + 1] > 255
  THEN <<>>
  ELSE IF s[i + 1] = 218
  THEN << <<218, s[i + 4]>> >>
  ELSE << <<s[i + 1], s[i + 4]>> >> \o SegmentsFrom(s, i + 2 + s[i + 2] * 256 + s[i + 3])

RECURSIVE SosEnd(_, _)
\* the index after the SOS segment found by walking the segments from i
SosEnd(s, i) ==
  IF i + 4 > Len(s) \/ s[i] # 255 \/ s[i + 1] > 255
  THEN 0
  ELSE IF s[i + 1] = 218
  THEN i + 2 + s[i + 2] * 256 + s[i + 3]
  ELSE SosEnd(s, i + 2 + s[i + 2] * 256 + s[i + 3])

\* DQT 0, DQT 1, DRI if the interval is not 0, SOF0, DHT luma DC, luma AC,
\* chroma DC, chroma AC, SOS
HeaderLayout(dri) ==
  << <<219, 0>>, <<219, 1>> >>
    \o (IF dri # 0 THEN << <<221, dri \div 256>> >> ELSE <<>>)
    \o << <<192, 8>>, <<196, 0>>, <<196, 16>>, <<196, 1>>, <<196, 17>>, <<218, 3>> >>

\* the restart interval a start fragment carries, 0 without restart header
RestartInterval(pk) ==
  IF BAt(pk.payload, 4) > 63
  THEN BAt(pk.payload, 8) * 256 + BAt(pk.payload, 9)
  ELSE 0

\* d is SOI, the segments of the layout and nothing else before the rest
HasLayout(d, dri, rest) ==
  /\ Len(d) >= 2 /\ d[1] = 255 /\ d[2] = 216
  /\ SegmentsFrom(d, 3) = HeaderLayout(dri)
  /\ SosEnd(d, 3) > 0
  /\ SubSeq(d, SosEnd(d, 3), Len(d)) = rest

\* C19: the header an accepted start fragment leaves in the buffer is SOI,
\* DQT 0, DQT 1, a DRI segment exactly when the restart interval is not 0
\* (none when the restart header carries interval 0), SOF0, the DHT
\* segments luma DC, luma AC, chroma DC, chroma AC and SOS, directly
\* followed by the fragment's payload.
C19_HeaderSegmentOrder ==
  (/\ op = "push" /\ ret = Ok /\ pkt # None
   /\ IsStart(pkt[1]) /\ ~pkt[1].mark) =>
    HasLayout(data, RestartInterval(pkt[1]), StartPayload(pkt[1]))

\* a start fragment with a restart header of interval 0 was accepted
C19_Witness ==
  /\ op = "push"
  /\ ret = Ok
  /\ IsStart(pkt[1])
  /\ type_specific(pkt[1].payload) > 63
  /\ RestartInterval(pkt[1]) = 0
  /\ metadata # None
  /\ metadata[1].start_ctx = pkt[1].ctx
  /\ SegmentsFrom(data, 3)[3] = <<192, 8>>

(* --------------------- generated quantization tables ------------------- *)

\* the Q values of the generated-table regime, and the other header fields
\* of the start fragment that asks for one
StandardQuality == 0..127

QualityFields ==
  { [q |-> q, type |-> t, w |-> w] : q \in StandardQuality, t \in {0, 1}, w \in {2, 3} }

QualityPacket(f) ==
  Packet(MainHeader(0, f.type, f.q, f.w, 1) \o <<7>>, 0, FALSE, 1)

InitTables ==
  /\ Init!1 /\ Init!2 /\ Init!3 /\ Init!4 /\ Init!5 /\ Init!6 /\ Init!7
  /\ Init!8 /\ Init!9 /\ Init!10 /\ Init!11 /\ Init!12 /\ Init!13 /\ Init!14
  /\ Init!16 /\ Init!17
  /\ \E f \in QualityFields : plan = Some(f)

\* push the start fragment of the plan: make_tables(q) fills slot q
PushQuality ==
  /\ plan # None
  /\ npush = 0
  /\ PushCall(QualityPacket(plan[1]))
  /\ UNCHANGED plan

NextTables == PushQuality \/ Pull

SpecTables == InitTables /\ [][NextTables]_vars

\* x / 100 rounded to the nearest integer, halves upwards
RoundedPercent(x) == (2 * x + 100) \div 200

\* the scale of the reference formula for 1 <= q <= 99
ReferenceScale(q) == IF q < 50 THEN 5000 \div q ELSE 200 - 2 * q

\* base table entry in zigzag position i (0-based)
BaseLuma(i) == JPEG_LUMA_QUANTIZER[ZIGZAG[i + 1] + 1]

BaseChroma(i) == JPEG_CHROMA_QUANTIZER[ZIGZAG[i + 1] + 1]

\* entry i (0-based) of the table the reference formula gives for q
ReferenceEntry(q, i) ==
  clamp(RoundedPercent((IF i < 64 THEN BaseLuma(i) ELSE BaseChroma(i - 64))
                         * ReferenceScale(q)), 1, 255)

\* C20: for 1 <= q <= 99 the table generated for q has 128 entries, entry i
\* (i < 64) is clamp(round(base_luma[zigzag[i]] * scale / 100), 1, 255) and
\* entry 64 + i the same from the chroma base table, with scale the integer
\* quotient 5000 / q below 50 and 200 - 2q from 50 on; every entry is within
\* 1..255; the table is the same whatever else the fragment carries, and
\* its two halves are the DQT segments of the header.
C20_QuantizerGenerator ==
  \A q \in 1..99 :
    qtables[q] # None =>
      LET t == qtables[q][1] IN
      /\ Len(t) = 128
      /\ \A i \in 0..127 : t[i + 1] = ReferenceEntry(q, i) /\ t[i + 1] \in 1..255
      /\ t = make_tables(q)
      /\ SubSeq(data, 8, 71) = SubSeq(t, 1, 64)
      /\ SubSeq(data, 77, 140) = SubSeq(t, 65, 128)

\* the table for q = 15 was generated: scale 333, luma 11 gives 37 rounded
\* up from 36.63, chroma 99 gives 255 clamped down from 330
C20_Witness ==
  /\ plan # None
  /\ plan[1].q = 15
  /\ plan[1].type = 1
  /\ op = "push"
  /\ ret = Ok
  /\ qtables[15] # None
  /\ qtables[15][1][1] = 53
  /\ qtables[15][1][2] = 37
  /\ qtables[15][1][128] = 255

(* --------------------------- state consistency ------------------------- *)

\* C21 (as claimed): between calls, no frame metadata means an empty
\* assembly buffer.
C21_IdleBufferEmpty ==
  metadata = None => data = <<>>

(* --------------------------- malformed packets ------------------------- *)

\* the bytes after the fixed header and, for type > 63, the restart header
AfterHeaders(payload) ==
  BLen(payload) - 8 - (IF BAt(payload, 4) > 63 THEN 4 ELSE 0)

\* the restart header is indicated and fewer than 4 bytes follow the fixed
\* header (the orphan test comes before this one)
TruncatedRestart(md, payload) ==
  /\ BLen(payload) >= 8
  /\ ~(BAt(payload, 1) + BAt(payload, 2) + BAt(payload, 3) > 0 /\ md = None)
  /\ BAt(payload, 4) > 63
  /\ BLen(payload) - 8 < 4

\* offset 0, Q >= 128 and fewer than 4 bytes for the quantization header
TruncatedQuantHeader(payload) ==
  /\ BLen(payload) >= 8
  /\ BAt(payload, 1) + BAt(payload, 2) + BAt(payload, 3) = 0
  /\ BAt(payload, 5) >= 128
  /\ AfterHeaders(payload) >= 0
  /\ AfterHeaders(payload) < 4

\* offset 0, Q >= 128 and a Length above the bytes behind the
\* quantization header
OverlongTable(pk) ==
  /\ BLen(pk.payload) >= 8
  /\ BAt(pk.payload, 1) + BAt(pk.payload, 2) + BAt(pk.payload, 3) = 0
  /\ BAt(pk.payload, 5) >= 128
  /\ AfterHeaders(pk.payload) >= 4
  /\ InlineLength(pk) > AfterHeaders(pk.payload) - 4

\* C22: with the output slot empty, a push of a packet shorter than 8
\* bytes, with a truncated restart header, or with Q >= 128 at offset 0 and
\* a truncated quantization header or a table length above the remaining
\* payload returns the matching error and leaves metadata, buffer, cache,
\* published parameters and output slot as they were; every push that
\* returns one of these errors leaves them as they were.
C22_MalformedRejectionAtomic ==
  [][(PushStep /\ pending = None) =>
       LET pk == pkt'[1] IN
       /\ (\/ BLen(pk.payload) < 8
           \/ TruncatedRestart(metadata, pk.payload)
           \/ TruncatedQuantHeader(pk.payload)) =>
            /\ ret' = Err("Too short RTP/JPEG packet", <<>>)
            /\ State' = State
            /\ npub' = npub /\ startPkt' = startPkt
       /\ OverlongTable(pk) =>
            /\ ret' = Err("Invalid RTP/JPEG packet. Length larger than payload",
                          <<InlineLength(pk), AfterHeaders(pk.payload) - 4>>)
            /\ State' = State
            /\ npub' = npub /\ startPkt' = startPkt
       /\ ret'.msg \in {"Too short RTP/JPEG packet",
                        "Invalid RTP/JPEG packet. Length larger than payload"} =>
            State' = State]_vars

\* a truncated restart header was rejected while a frame was being assembled
C22_Witness ==
  /\ op = "push"
  /\ ret = Err("Too short RTP/JPEG packet", <<>>)
  /\ TruncatedRestart(metadata, pkt[1].payload)
  /\ metadata # None
  /\ BLen(data) > 2
  /\ qtables[50] # None

(* ----------------------------- published frames ----------------------- *)

\* C23: the frame a push publishes carries the context of the start
\* fragment that created the metadata, and the context, timestamp, stream
\* id and loss of the fragment that completed it (losses of earlier
\* fragments are not added); it is never a random access point and always
\* disposable.
C23_PublishedFrameFields ==
  [][npub' = npub + 1 =>
       /\ pending' # None /\ startPkt' # None
       /\ pending'[1].start_ctx = startPkt'[1].ctx
       /\ pending'[1].end_ctx = pkt'[1].ctx
       /\ pending'[1].timestamp = pkt'[1].timestamp
       /\ pending'[1].stream_id = pkt'[1].stream_id
       /\ pending'[1].loss = pkt'[1].loss
       /\ ~pending'[1].is_random_access_point
       /\ pending'[1].is_disposable]_vars

\* a frame whose start fragment reported a loss and whose last one did not
C23_Witness ==
  /\ pending # None
  /\ startPkt # None
  /\ startPkt[1].loss = 1
  /\ pkt[1].loss = 0
  /\ pending[1].loss = 0
  /\ pending[1].start_ctx # pending[1].end_ctx
  /\ pending[1].start_ctx = startPkt[1].ctx

(* ------------------------ degenerate quality values -------------------- *)

\* the Q values below 128 outside the 1..99 of the scaling formula
DegenerateQuality == {0} \cup (100..127)

\* C24: a start fragment with Q = 0 or Q in 100..127 is accepted and fills
\* cache slot Q with a generated table; the table for Q = 0 is the table of
\* the reference formula for 1, the table for Q in 100..127 the one for 99,
\* and every entry is within 1..255.
C24_DegenerateQuality ==
  /\ (op = "push" /\ plan # None /\ plan[1].q \in DegenerateQuality) =>
       /\ ret = Ok
       /\ metadata # None
       /\ qtables[plan[1].q] # None
  /\ \A q \in DegenerateQuality :
       qtables[q] # None =>
         /\ Len(qtables[q][1]) = 128
         /\ \A i \in 0..127 :
              /\ qtables[q][1][i + 1] = ReferenceEntry(IF q = 0 THEN 1 ELSE 99, i)
              /\ qtables[q][1][i + 1] \in 1..255

\* the tables for Q = 0 (scale 5000: all 255) and Q = 127 (scale 2) exist
C24_Witness ==
  /\ op = "push"
  /\ ret = Ok
  /\ plan # None
  /\ plan[1].q \in {0, 127}
  /\ qtables[plan[1].q] # None
  /\ qtables[plan[1].q][1][1] = (IF plan[1].q = 0 THEN 255 ELSE 1)
  /\ qtables[plan[1].q][1][128] = (IF plan[1].q = 0 THEN 255 ELSE 2)

(* --------------------------- chroma subsampling ------------------------ *)

RECURSIVE SegmentAt(_, _, _)
\* the index of the first segment with the marker, walking s from i; 0 if
\* there is none before SOS
SegmentAt(s, i, marker) ==
  IF i + 4 > Len(s) \/ s[i] # 255 \/ s[i + 1] > 255
  THEN 0
  ELSE IF s[i + 1] = marker
  THEN i
  ELSE IF s[i + 1] = 218
  THEN 0
  ELSE SegmentAt(s, i + 2 + s[i + 2] * 256 + s[i + 3], marker)

\* the three component entries of the SOF0 segment at index k of d
SofComponents(d, k) == SubSeq(d, k + 10, k + 18)

\* C25: in the header of an accepted start fragment the SOF0 entry of
\* component Y has sampling 0x21 when the low 6 bits of the type byte are 0
\* (types 0 and 64 alike) and 0x22 otherwise, with quantization table 0; Cb
\* and Cr have sampling 0x11 and quantization table 1.
C25_ChromaSubsampling ==
  (/\ op = "push" /\ ret = Ok /\ pkt # None
   /\ IsStart(pkt[1]) /\ ~pkt[1].mark) =>
    /\ SegmentAt(data, 3, 192) > 0
    /\ SofComponents(data, SegmentAt(data, 3, 192)) =
         <<0, (IF BAt(pkt[1].payload, 4) \in {0, 64, 128, 192} THEN 33 ELSE 34), 0,
           1, 17, 1,
           2, 17, 1>>

\* a start fragment of type 64 was accepted: sampling 0x21 behind a DRI segment
C25_Witness ==
  /\ op = "push"
  /\ ret = Ok
  /\ IsStart(pkt[1])
  /\ ~pkt[1].mark
  /\ BAt(pkt[1].payload, 4) = 64
  /\ SegmentAt(data, 3, 221) > 0
  /\ SofComponents(data, SegmentAt(data, 3, 192))[2] = 33

(* --------------------------- terminal fragments ------------------------ *)

\* a marked fragment that push accepts into the frame: a continuation with
\* the frame's timestamp, or a start fragment
PassesAsTerminal(md, pk) ==
  /\ pk.mark
  /\ \/ IsContinuation(pk) /\ md # None /\ md[1].timestamp = pk.timestamp
     \/ IsStart(pk)

\* C26: while there is frame metadata the buffer holds at least the two
\* bytes FF D8; hence a marked fragment that is accepted into the frame
\* (a marked start fragment included) publishes exactly one frame and
\* leaves no metadata and an empty buffer.
C26_TerminalFragmentPublishes ==
  [][/\ metadata' # None =>
          /\ BLen(data') >= 2
          /\ BAt(data', 0) = 255 /\ BAt(data', 1) = 216
     /\ (/\ PushStep /\ pending = None
         /\ PassesAsTerminal(metadata, pkt'[1])
         /\ ret' = Ok) =>
          /\ npub' = npub + 1
          /\ pending' # None
          /\ BLen(pending'[1].data) >= 2
          /\ metadata' = None
          /\ data' = <<>>]_vars

\* a marked continuation published the two bytes a failed start fragment
\* had left under the metadata of the frame before it
C26_Witness ==
  /\ op = "push"
  /\ ret = Ok
  /\ pkt[1].mark
  /\ IsContinuation(pkt[1])
  /\ pending # None
  /\ BLen(pending[1].data) <= 6
  /\ metadata = None
  /\ data = <<>>

(* ---------------------------- unreachable error ------------------------ *)

\* C27: no push returns "Missing start packet": a fragment with offset
\* above 0 and no metadata was rejected as an orphan before, and a fragment
\* with offset 0 that got as far as the metadata test has recorded metadata.
C27_MissingStartUnreachable ==
  /\ ret.msg # "Invalid RTP/JPEG packet. Missing start packet"
  /\ (/\ op = "push" /\ pkt # None /\ ret = Ok
      /\ ~TooShort(pkt[1].payload)
      /\ frag_offset(pkt[1].payload) = 0) => startPkt = pkt

\* a start fragment failed while there was no metadata, on another error
C27_Witness ==
  /\ op = "push"
  /\ ret.kind = "Err"
  /\ ~TooShort(pkt[1].payload)
  /\ frag_offset(pkt[1].payload) = 0
  /\ metadata = None
  /\ startPkt = None
  /\ npush = 3

(* ------------------------------ output slot ---------------------------- *)

\* C28: while the output slot holds a frame there is no frame metadata and
\* the assembly buffer is empty.
C28_PendingImpliesIdle ==
  pending # None => (metadata = None /\ data = <<>>)

\* the second frame of a run, completed by a continuation, is in the slot
C28_Witness ==
  /\ pending # None
  /\ npub = 2
  /\ op = "push"
  /\ IsContinuation(pkt[1])
  /\ metadata = None
  /\ data = <<>>

(* --------------------------- retained buffer size ---------------------- *)

\* C29: between calls the assembly buffer holds at most MAX_FRAME_LEN
\* bytes; a longer frame exists only in the output slot, completed by its
\* marked fragment.
C29_BoundedRetainedBuffer ==
  /\ BLen(data) <= MAX_FRAME_LEN
  /\ (pending # None /\ BLen(pending[1].data) > MAX_FRAME_LEN) =>
       (data = <<>> /\ metadata = None /\ pending[1].end_ctx = BulkEndPacket.ctx)

\* a frame above the limit was completed and is in the output slot
C29_Witness ==
  /\ pending # None
  /\ BLen(pending[1].data) > MAX_FRAME_LEN
  /\ data = <<>>
  /\ metadata = None
  /\ ndiscard = 0

(* ----------------------------- fragment offsets ----------------------- *)

\* fragment offsets above 0, small and large
OtherOffsets == {1, 2, 65536, 16777215}

\* the packet with its 24-bit fragment offset replaced
WithOffset(pk, off) ==
  [pk EXCEPT !.payload =
     <<pk.payload[1], off \div 65536, (off \div 256) % 256, off % 256>>
       \o SubSeq(pk.payload, 5, Len(pk.payload))]

\* C30: a push of a fragment with an offset above 0 returns the same
\* result and leaves the same state (buffer, metadata, cache, parameters,
\* published frame) as the push of the same fragment with any other offset
\* above 0: the payload is appended in arrival order whatever the offset.
C30_OffsetNotUsedForPlacement ==
  [][(/\ PushStep /\ pending = None
      /\ ~TooShort(pkt'[1].payload)
      /\ frag_offset(pkt'[1].payload) > 0) =>
       \A off \in OtherOffsets :
         /\ push(State, WithOffset(pkt'[1], off)).ret = ret'
         /\ push(State, WithOffset(pkt'[1], off)).st = State'
         /\ push(State, WithOffset(pkt'[1], off)).published = (npub' = npub + 1)
         /\ ~push(State, WithOffset(pkt'[1], off)).started]_vars

\* a fragment with offset 65536 completed a frame of a few payload bytes
C30_Witness ==
  /\ op = "push"
  /\ ret = Ok
  /\ frag_offset(pkt[1].payload) = 65536
  /\ pending # None
  /\ pending[1].end_ctx = pkt[1].ctx
  /\ startPkt # None
  /\ BLen(StartPayload(startPkt[1])) = 2
  /\ BLen(pending[1].data) < 1000

====
